---- MODULE Spec2Model ----
(***************************************************************************)
(* Batch inference pipeline of the retail customer segmentation program:   *)
(*   clean_data -> build_rfm_features -> column selection by the artifact  *)
(*   schema -> scaler.transform -> kmeans.predict   (BatchPredictor.predict)*)
(* and the business labelling of the predicted clusters                    *)
(*   get_segment_labels                              (app.py).             *)
(*                                                                         *)
(* Data frames are sequences of records.  A missing CustomerID (NaN) is    *)
(* the empty tuple <<>>, a present one the 1-tuple <<id>>.  InvoiceNo and   *)
(* the raw InvoiceDate are character sequences, so that str.startswith and *)
(* the date parse are computed and not assumed.  Timestamps are integers   *)
(* counting ticks; TicksPerDay ticks make one day.  Money is an integer.   *)
(* The Description column is carried by no step of the code and is left    *)
(* out of the rows.                                                        *)
(***************************************************************************)
EXTENDS Integers, Sequences, FiniteSets, TLC

\* ------------------------------------------------------------------ bounds
MaxRawRows == 2
TicksPerDay == 2
MaxQuantity == 2
MaxCustomerID == 2
MaxResultRows == 5
MaxMonetary == 3
MaxRecency == 3
MaxFrequency == 1

VARIABLES
    expected_features,  \* BatchPredictor.expected_features (schema["features"])
    pc,                 \* position inside BatchPredictor.predict
    raw_df,             \* the argument of predict
    cleaned_df,         \* cleaned_df = clean_data(raw_df)
    customer_features,  \* customer_features = build_rfm_features(cleaned_df)
    X,                  \* X = customer_features[self.expected_features]
    X_scaled,           \* X_scaled = self.scaler.transform(X)
    err,                \* the exception predict ended with (exc = "" when none)
    df_results,         \* the argument of get_segment_labels
    lpc,                \* "input", then "returned" or "raised"
    labels,             \* the dict get_segment_labels returns
    lerr                \* the exception get_segment_labels ended with

pvars == <<expected_features, pc, raw_df, cleaned_df, customer_features, X, X_scaled, err>>

lvars == <<df_results, lpc, labels, lerr>>

vars == <<pvars, lvars>>

\* ------------------------------------------------------------ generic helpers
Range(s) == {s[i] : i \in 1..Len(s)}

SetMax(S) == CHOOSE m \in S : \A x \in S : x <= m

SetMin(S) == CHOOSE m \in S : \A x \in S : m <= x

RECURSIVE SetSum(_, _)
\* sum of f[x] over the finite set S
SetSum(S, f) ==
    IF S = {} THEN 0
    ELSE LET x == CHOOSE y \in S : TRUE IN f[x] + SetSum(S \ {x}, f)

RECURSIVE SortedSeq(_)
\* the integers of S in increasing order (groupby sorts its keys)
SortedSeq(S) ==
    IF S = {} THEN <<>>
    ELSE LET m == SetMin(S) IN <<m>> \o SortedSeq(S \ {m})

RECURSIVE Flatten(_)
Flatten(ss) == IF ss = <<>> THEN <<>> ELSE Head(ss) \o Flatten(Tail(ss))

\* ------------------------------------------------------------------ inputs
NaN == <<>>

InvoiceNos == { <<"1">>, <<"2">>, <<"C", "2">> }

StockCodes == {"A", "B"}

Quantities == (0 - 1)..MaxQuantity

UnitPrices == {0, 5}

\* raw InvoiceDate cells: decimal tick counts, and one cell that is no date
RawDates == { <<"0">>, <<"2">>, <<"3">>, <<"x">> }

CustomerIDs == {NaN} \cup { <<c>> : c \in 1..MaxCustomerID }

RawRows ==
    [InvoiceNo : InvoiceNos, StockCode : StockCodes, Quantity : Quantities,
     InvoiceDate : RawDates, UnitPrice : UnitPrices, CustomerID : CustomerIDs]

RawTables == UNION { [1..n -> RawRows] : n \in 0..MaxRawRows }

\* feature_cols of the training job, the schema it saves
feature_cols == <<"Recency", "Frequency", "Monetary", "TotalQuantity", "UniqueProducts">>

\* schemas a feature_schema.json may hold: the trained one, a reordered
\* subset, and one naming columns build_rfm_features does not produce
Schemas ==
    { feature_cols,
      <<"Monetary", "Recency">>,
      <<"Recency", "AvgBasket", "Tenure">> }

\* ------------------------------------------------------------- clean_data
Digits == {"0", "1", "2", "3", "4", "5", "6", "7", "8", "9"}

DigitValue(c) ==
    CASE c = "0" -> 0 [] c = "1" -> 1 [] c = "2" -> 2 [] c = "3" -> 3
      [] c = "4" -> 4 [] c = "5" -> 5 [] c = "6" -> 6 [] c = "7" -> 7
      [] c = "8" -> 8 [] c = "9" -> 9

\* whether pd.to_datetime can parse the cell
Parseable(s) == Len(s) > 0 /\ \A i \in 1..Len(s) : s[i] \in Digits

RECURSIVE ParseTicks(_)
\* the timestamp a parseable cell denotes
ParseTicks(s) ==
    IF s = <<>> THEN 0
    ELSE 10 * ParseTicks(SubSeq(s, 1, Len(s) - 1)) + DigitValue(s[Len(s)])

\* .astype(str) of an InvoiceNo cell: the cell is text already
astype_str(v) == v

\* .str.startswith(prefix)
startswith(s, prefix) ==
    Len(s) >= Len(prefix) /\ SubSeq(s, 1, Len(prefix)) = prefix

HasCustomerID(r) == r.CustomerID # NaN

\* df.dropna(subset=["CustomerID"])
dropna_CustomerID(df) == SelectSeq(df, HasCustomerID)

\* pd.to_datetime(df["InvoiceDate"]) raises on a cell it cannot parse
to_datetime_raises(df) == \E i \in 1..Len(df) : ~Parseable(df[i].InvoiceDate)

\* df["InvoiceDate"] = pd.to_datetime(df["InvoiceDate"])
to_datetime(df) ==
    [i \in 1..Len(df) |-> [df[i] EXCEPT !.InvoiceDate = ParseTicks(df[i].InvoiceDate)]]

NotCancelled(r) == ~startswith(astype_str(r.InvoiceNo), <<"C">>)

\* df[~df["InvoiceNo"].astype(str).str.startswith("C")]
drop_cancelled(df) == SelectSeq(df, NotCancelled)

\* ValidRow with the Quantity test weakened to >= 0
ValidRow_NonNegative(r) == r.Quantity >= 0 /\ r.UnitPrice > 0

ValidRow(r) == r.Quantity > 0 /\ r.UnitPrice > 0

\* df[(df["Quantity"] > 0) & (df["UnitPrice"] > 0)]
drop_invalid(df) == SelectSeq(df, ValidRow)

\* df["TotalPrice"] = df["Quantity"] * df["UnitPrice"]
add_TotalPrice(df) ==
    [i \in 1..Len(df) |->
        [InvoiceNo |-> df[i].InvoiceNo, StockCode |-> df[i].StockCode,
         Quantity |-> df[i].Quantity, InvoiceDate |-> df[i].InvoiceDate,
         UnitPrice |-> df[i].UnitPrice, CustomerID |-> df[i].CustomerID,
         TotalPrice |-> df[i].Quantity * df[i].UnitPrice]]

\* clean_data with the dates parsed after the row filters
clean_data_ParseLast(df) ==
    LET d1 == drop_invalid(drop_cancelled(dropna_CustomerID(df))) IN
    IF to_datetime_raises(d1)
    THEN [raised |-> TRUE, exc |-> "ValueError", df |-> <<>>]
    ELSE [raised |-> FALSE, exc |-> "", df |-> add_TotalPrice(to_datetime(d1))]

\* clean_data(df): the returned frame, or the exception it raises
clean_data(df) ==
    LET d1 == dropna_CustomerID(df) IN
    IF to_datetime_raises(d1)
    THEN [raised |-> TRUE, exc |-> "ValueError", df |-> <<>>]
    ELSE [raised |-> FALSE, exc |-> "",
          df |-> add_TotalPrice(drop_invalid(drop_cancelled(to_datetime(d1))))]

\* ---------------------------------------------------- build_rfm_features
\* snapshot_date without the added day
snapshot_date_NoOffset(df) ==
    IF df = <<>> THEN <<>>
    ELSE <<SetMax({df[i].InvoiceDate : i \in 1..Len(df)})>>

\* df["InvoiceDate"].max() + pd.Timedelta(days=1); NaT (<<>>) on an empty frame
snapshot_date(df) ==
    IF df = <<>> THEN <<>>
    ELSE <<SetMax({df[i].InvoiceDate : i \in 1..Len(df)}) + TicksPerDay>>

\* Timedelta.days: whole days, rounded down
days(delta) == delta \div TicksPerDay

\* the row indices of one groupby("CustomerID") group
Group(df, c) == {i \in 1..Len(df) : df[i].CustomerID = <<c>>}

\* the group keys in the order groupby yields them
GroupKeys(df) == SortedSeq({df[i].CustomerID[1] : i \in 1..Len(df)})

\* lambda x: (snapshot_date - x.max()).days
RecencyOf(df, c) ==
    days(snapshot_date(df)[1] - SetMax({df[i].InvoiceDate : i \in Group(df, c)}))

\* rfm_frame with InvoiceNo aggregated by "count" in place of "nunique"
rfm_frame_Count(df) ==
    LET keys == GroupKeys(df) IN
    [k \in 1..Len(keys) |->
        [CustomerID |-> keys[k],
         Recency |-> RecencyOf(df, keys[k]),
         Frequency |-> Cardinality(Group(df, keys[k])),
         Monetary |-> SetSum(Group(df, keys[k]), [i \in 1..Len(df) |-> df[i].TotalPrice])]]

\* the rfm frame: InvoiceDate -> Recency, InvoiceNo nunique, TotalPrice sum
rfm_frame(df) ==
    LET keys == GroupKeys(df) IN
    [k \in 1..Len(keys) |->
        [CustomerID |-> keys[k],
         Recency |-> RecencyOf(df, keys[k]),
         Frequency |-> Cardinality({df[i].InvoiceNo : i \in Group(df, keys[k])}),
         Monetary |-> SetSum(Group(df, keys[k]), [i \in 1..Len(df) |-> df[i].TotalPrice])]]

\* the behavior frame: Quantity sum, StockCode nunique
behavior_frame(df) ==
    LET keys == GroupKeys(df) IN
    [k \in 1..Len(keys) |->
        [CustomerID |-> keys[k],
         TotalQuantity |-> SetSum(Group(df, keys[k]), [i \in 1..Len(df) |-> df[i].Quantity]),
         UniqueProducts |-> Cardinality({df[i].StockCode : i \in Group(df, keys[k])})]]

\* rfm.merge(behavior, on="CustomerID", how="left"): one output row per
\* matching behavior row of each rfm row (a row of the rfm frame that matched
\* nothing would be kept with nulls; both frames have the same keys)
merge_left(rfm, behavior) ==
    Flatten([k \in 1..Len(rfm) |->
        LET m == SelectSeq(behavior, LAMBDA b : b.CustomerID = rfm[k].CustomerID) IN
        [j \in 1..Len(m) |->
            [CustomerID |-> rfm[k].CustomerID, Recency |-> rfm[k].Recency,
             Frequency |-> rfm[k].Frequency, Monetary |-> rfm[k].Monetary,
             TotalQuantity |-> m[j].TotalQuantity,
             UniqueProducts |-> m[j].UniqueProducts]]])

build_rfm_features(df) == merge_left(rfm_frame(df), behavior_frame(df))

\* the columns of the frame build_rfm_features returns
FeatureColumns ==
    {"CustomerID", "Recency", "Frequency", "Monetary", "TotalQuantity", "UniqueProducts"}

\* ------------------------------------------------- BatchPredictor.predict
\* MissingColumns reporting only the first absent label
MissingColumns_First(features) ==
    LET absent == {j \in 1..Len(features) : features[j] \notin FeatureColumns} IN
    IF absent = {} THEN {} ELSE {features[SetMin(absent)]}

\* the labels of self.expected_features that customer_features lacks
MissingColumns(features) == {f \in Range(features) : f \notin FeatureColumns}

\* customer_features[self.expected_features]: the listed columns, in the
\* listed order
select_columns(cf, features) ==
    [i \in 1..Len(cf) |-> [j \in 1..Len(features) |-> cf[i][features[j]]]]

\* StandardScaler.transform: element-wise, by column position.  The fitted
\* mean and scale live in scaler.pkl; entry j of a row becomes the image of
\* the raw value under the transform of position j.
scaler_transform(x) ==
    [i \in 1..Len(x) |-> [j \in 1..Len(x[i]) |-> [col |-> j, of |-> x[i][j]]]]

\* n_clusters of the training job: kmeans.predict yields 0..n_clusters-1
n_clusters == 4

ClusterIDs == 0..(n_clusters - 1)

\* kmeans.predict is a function of the scaled vector: the centroids live in
\* kmeans.pkl, so any assignment that maps equal vectors alike is possible
KMeansAssignments(xs) ==
    {a \in [1..Len(xs) -> ClusterIDs] :
        \A i, j \in 1..Len(xs) : xs[i] = xs[j] => a[i] = a[j]}

\* customer_features["Cluster"] = self.kmeans.predict(X_scaled)
with_Cluster(cf, a) ==
    [i \in 1..Len(cf) |->
        [CustomerID |-> cf[i].CustomerID, Recency |-> cf[i].Recency,
         Frequency |-> cf[i].Frequency, Monetary |-> cf[i].Monetary,
         TotalQuantity |-> cf[i].TotalQuantity,
         UniqueProducts |-> cf[i].UniqueProducts, Cluster |-> a[i]]]

\* ----------------------------------------------------- get_segment_labels
\* the rows of a predicted frame, by the columns get_segment_labels reads
ResultRows ==
    [Cluster : ClusterIDs, Monetary : 1..MaxMonetary, Recency : 1..MaxRecency,
     Frequency : 1..MaxFrequency]

\* groupby("Cluster").agg("mean") reads the frame as a multiset of rows: the
\* frames are enumerated with their rows in non-decreasing RowRank
RowRank(r) ==
    ((r.Cluster * (MaxMonetary + 1) + r.Monetary) * (MaxRecency + 1) + r.Recency)
        * (MaxFrequency + 1) + r.Frequency

\* a mean, kept exact as sum over count
Mean(df, c, col) ==
    LET g == {i \in 1..Len(df) : df[i].Cluster = c} IN
    [num |-> SetSum(g, [i \in 1..Len(df) |-> df[i][col]]), den |-> Cardinality(g)]

MeanLess(a, b) == a.num * b.den < b.num * a.den

\* df_results.groupby("Cluster").agg({... "mean"}).reset_index()
cluster_stats(df) ==
    LET keys == SortedSeq({df[i].Cluster : i \in 1..Len(df)}) IN
    [k \in 1..Len(keys) |->
        [Cluster |-> keys[k],
         Monetary |-> Mean(df, keys[k], "Monetary"),
         Recency |-> Mean(df, keys[k], "Recency"),
         Frequency |-> Mean(df, keys[k], "Frequency")]]

\* frame.sort_values(col, ascending=asc).iloc[0]["Cluster"]: a cluster no
\* other row of the frame precedes; among equal means the sort decides
FirstSorted(frame, col, asc) ==
    {frame[i].Cluster : i \in
        {i \in 1..Len(frame) : \A j \in 1..Len(frame) :
            IF asc THEN ~MeanLess(frame[j][col], frame[i][col])
                   ELSE ~MeanLess(frame[i][col], frame[j][col])}}

NotCluster(frame, c) == SelectSeq(frame, LAMBDA s : s.Cluster # c)

\* Remaining that leaves the labelled cluster in the pool
Remaining_KeepAll(frame, c) == frame

\* remaining = frame[frame["Cluster"] != c]
Remaining(frame, c) == NotCluster(frame, c)

\* labels[k] = v
Put(d, k, v) == [x \in (DOMAIN d) \cup {k} |-> IF x = k THEN v ELSE d[x]]

\* the label texts of app.py, without their leading pictograph
HighValueLoyal == "High-Value Loyal"

AtRiskChurning == "At-Risk / Churning"

RecentLowSpenders == "Recent Low Spenders"

BulkAverageBuyers == "Bulk/Average Buyers"

\* .iloc[0] of a frame without rows
IndexError == [raised |-> TRUE, exc |-> "IndexError", labels |-> <<>>]

Returned(d) == [raised |-> FALSE, exc |-> "", labels |-> d]

\* LoyalCandidates taking the first row of the unsorted frame (lowest ID)
LoyalCandidates_Unsorted(stats) == {stats[1].Cluster}

\* the cluster labelled first: highest mean Monetary
LoyalCandidates(stats) == FirstSorted(stats, "Monetary", FALSE)

\* AtRiskCandidates with the sort ascending
AtRiskCandidates_Ascending(remaining) == FirstSorted(remaining, "Recency", TRUE)

\* the cluster labelled second: highest mean Recency of the remaining
AtRiskCandidates(remaining) == FirstSorted(remaining, "Recency", FALSE)

\* the cluster labelled third: lowest mean Recency of the remaining
RecentCandidates(remaining) == FirstSorted(remaining, "Recency", TRUE)

\* get_segment_labels(df_results): every outcome the call can have
get_segment_labels(df) ==
    LET stats == cluster_stats(df) IN
    IF stats = <<>> THEN {IndexError}
    ELSE UNION {
        LET l1 == Put(<<>>, loyal, HighValueLoyal)
            r1 == Remaining(stats, loyal)
        IN  IF r1 = <<>> THEN {IndexError}
            ELSE UNION {
                LET l2 == Put(l1, at_risk, AtRiskChurning)
                    r2 == Remaining(r1, at_risk)
                IN  IF r2 = <<>> THEN {IndexError}
                    ELSE {
                        LET l3 == Put(l2, recent, RecentLowSpenders)
                            r3 == Remaining(r2, recent)
                        IN  IF r3 # <<>>
                            THEN Returned(Put(l3, r3[1].Cluster, BulkAverageBuyers))
                            ELSE Returned(l3)
                        : recent \in RecentCandidates(r2)}
                : at_risk \in AtRiskCandidates(r1)}
        : loyal \in LoyalCandidates(stats)}

\* no exception: exc is the exception class, at the statement that raised it,
\* names the column labels its message lists
NoErr == [exc |-> "", at |-> "", names |-> {}]

Init ==
    /\ expected_features \in Schemas
    /\ pc = "idle"
    /\ raw_df = <<>>
    /\ cleaned_df = <<>>
    /\ customer_features = <<>>
    /\ X = <<>>
    /\ X_scaled = <<>>
    /\ err = NoErr
    /\ df_results = <<>>
    /\ lpc = "input"
    /\ labels = <<>>
    /\ lerr = ""

\* predictor.predict(raw_df) is called
CallPredict ==
    /\ pc = "idle"
    /\ \E df \in RawTables : raw_df' = df
    /\ pc' = "clean"
    /\ UNCHANGED <<expected_features, cleaned_df, customer_features, X, X_scaled, err>>
    /\ UNCHANGED lvars

\* 1. cleaned_df = clean_data(raw_df)
Clean ==
    /\ pc = "clean"
    /\ LET r == clean_data(raw_df) IN
       IF r.raised
       THEN /\ pc' = "raised"
            /\ err' = [exc |-> r.exc, at |-> "clean_data", names |-> {}]
            /\ UNCHANGED cleaned_df
       ELSE /\ pc' = "build"
            /\ cleaned_df' = r.df
            /\ UNCHANGED err
    /\ UNCHANGED <<expected_features, raw_df, customer_features, X, X_scaled>>
    /\ UNCHANGED lvars

\* 2. customer_features = build_rfm_features(cleaned_df)
BuildFeatures ==
    /\ pc = "build"
    /\ customer_features' = build_rfm_features(cleaned_df)
    /\ pc' = "validate"
    /\ UNCHANGED <<expected_features, raw_df, cleaned_df, X, X_scaled, err>>
    /\ UNCHANGED lvars

\* 3. X = customer_features[self.expected_features]  (KeyError names the
\*    labels that are not columns)
ValidateColumns ==
    /\ pc = "validate"
    /\ IF MissingColumns(expected_features) # {}
       THEN /\ pc' = "raised"
            /\ err' = [exc |-> "KeyError", at |-> "select_columns",
                       names |-> MissingColumns(expected_features)]
            /\ UNCHANGED X
       ELSE /\ pc' = "scale"
            /\ X' = select_columns(customer_features, expected_features)
            /\ UNCHANGED err
    /\ UNCHANGED <<expected_features, raw_df, cleaned_df, customer_features, X_scaled>>
    /\ UNCHANGED lvars

\* 4. X_scaled = self.scaler.transform(X)  (the scaler refuses a frame of
\*    zero rows with a ValueError)
Scale ==
    /\ pc = "scale"
    /\ IF X = <<>>
       THEN /\ pc' = "raised"
            /\ err' = [exc |-> "ValueError", at |-> "scaler_transform", names |-> {}]
            /\ UNCHANGED X_scaled
       ELSE /\ pc' = "predict"
            /\ X_scaled' = scaler_transform(X)
            /\ UNCHANGED err
    /\ UNCHANGED <<expected_features, raw_df, cleaned_df, customer_features, X>>
    /\ UNCHANGED lvars

\* 5. customer_features["Cluster"] = self.kmeans.predict(X_scaled); return
Predict ==
    /\ pc = "predict"
    /\ \E a \in KMeansAssignments(X_scaled) :
            customer_features' = with_Cluster(customer_features, a)
    /\ pc' = "returned"
    /\ UNCHANGED <<expected_features, raw_df, cleaned_df, X, X_scaled, err>>
    /\ UNCHANGED lvars

Next == CallPredict \/ Clean \/ BuildFeatures \/ ValidateColumns \/ Scale \/ Predict

Spec == Init /\ [][Next]_vars

\* --------------------------------------------- the labelling, on its own
InitLabel ==
    /\ expected_features = feature_cols
    /\ pc = "idle"
    /\ raw_df = <<>>
    /\ cleaned_df = <<>>
    /\ customer_features = <<>>
    /\ X = <<>>
    /\ X_scaled = <<>>
    /\ err = NoErr
    /\ df_results = <<>>
    /\ lpc = "input"
    /\ labels = <<>>
    /\ lerr = ""

\* one more customer row of the predicted frame
AddResultRow ==
    /\ lpc = "input"
    /\ Len(df_results) < MaxResultRows
    /\ \E r \in ResultRows :
        /\ IF df_results = <<>> THEN TRUE
           ELSE RowRank(df_results[Len(df_results)]) <= RowRank(r)
        /\ df_results' = Append(df_results, r)
    /\ UNCHANGED <<lpc, labels, lerr>>
    /\ UNCHANGED pvars

\* segment_map = get_segment_labels(results_df); predict returns no frame
\* without rows
GetSegmentLabels ==
    /\ lpc = "input"
    /\ df_results # <<>>
    /\ \E o \in get_segment_labels(df_results) :
        /\ lpc' = IF o.raised THEN "raised" ELSE "returned"
        /\ labels' = o.labels
        /\ lerr' = o.exc
    /\ UNCHANGED df_results
    /\ UNCHANGED pvars

NextLabel == AddResultRow \/ GetSegmentLabels

SpecLabel == InitLabel /\ [][NextLabel]_vars

\* ======================================================== properties
\* ---- the pipeline (Spec)

\* clean_data has returned a frame
CleanReturned == pc \notin {"idle", "clean"} /\ err.at # "clean_data"

\* build_rfm_features has returned a frame
FeaturesBuilt == pc \notin {"idle", "clean", "build"} /\ err.at # "clean_data"

\* the four conditions on a raw row: CustomerID present, Quantity > 0,
\* UnitPrice > 0, InvoiceNo not starting with "C"
Keepable(r) ==
    /\ r.CustomerID # <<>>
    /\ r.Quantity > 0
    /\ r.UnitPrice > 0
    /\ (r.InvoiceNo = <<>> \/ Head(r.InvoiceNo) # "C")

SameCells(a, b) ==
    /\ a.InvoiceNo = b.InvoiceNo
    /\ a.StockCode = b.StockCode
    /\ a.Quantity = b.Quantity
    /\ a.UnitPrice = b.UnitPrice
    /\ a.CustomerID = b.CustomerID

\* C1: every row clean_data returns has a CustomerID, Quantity > 0,
\* UnitPrice > 0 and an InvoiceNo not starting with "C", and the returned
\* rows are exactly the input rows that satisfy the four conditions, in
\* their order.
C1_CleanKeepsExactlyValidRows ==
    CleanReturned =>
        LET good == SelectSeq(raw_df, Keepable) IN
        /\ \A i \in 1..Len(cleaned_df) : Keepable(cleaned_df[i])
        /\ Len(cleaned_df) = Len(good)
        /\ \A i \in 1..Len(good) : SameCells(good[i], cleaned_df[i])

\* a cancelled row was dropped and a valid row kept
C1_Witness ==
    /\ CleanReturned
    /\ Len(raw_df) = 2
    /\ raw_df[1].InvoiceNo = <<"C", "2">>
    /\ raw_df[1].CustomerID # <<>>
    /\ Len(cleaned_df) = 1
    /\ SameCells(raw_df[2], cleaned_df[1])

\* the raw rows of customer c that survive the cleaning
Survivors(c) ==
    {i \in 1..Len(raw_df) : Keepable(raw_df[i]) /\ raw_df[i].CustomerID = <<c>>}

RECURSIVE SumOver(_, _, _)
\* the sum of f[i] over the i in 1..n that are in S
SumOver(n, S, f) ==
    IF n = 0 THEN 0
    ELSE (IF n \in S THEN f[n] ELSE 0) + SumOver(n - 1, S, f)

\* C2: after clean_data and build_rfm_features a customer has a feature row
\* iff one of its raw rows survives the cleaning, and then exactly one, with
\* Frequency the number of distinct InvoiceNo, Monetary the sum of
\* Quantity * UnitPrice, TotalQuantity the sum of Quantity and UniqueProducts
\* the number of distinct StockCode, all over the surviving rows only.
C2_FeaturesFromSurvivingRows ==
    FeaturesBuilt =>
        \A c \in 1..MaxCustomerID :
            LET S == Survivors(c)
                rows == {k \in 1..Len(customer_features) :
                            customer_features[k].CustomerID = c}
                n == Len(raw_df)
            IN  IF S = {} THEN rows = {}
                ELSE /\ Cardinality(rows) = 1
                     /\ \A k \in rows :
                        /\ customer_features[k].Frequency =
                                Cardinality({raw_df[i].InvoiceNo : i \in S})
                        /\ customer_features[k].Monetary =
                                SumOver(n, S, [i \in 1..n |->
                                    raw_df[i].Quantity * raw_df[i].UnitPrice])
                        /\ customer_features[k].TotalQuantity =
                                SumOver(n, S, [i \in 1..n |-> raw_df[i].Quantity])
                        /\ customer_features[k].UniqueProducts =
                                Cardinality({raw_df[i].StockCode : i \in S})

\* Scenario A: invoice "1" (2 x 5) and the cancelled invoice "C2" of
\* customer 1 give one feature row with Monetary = 10, Frequency = 1
C2_Witness ==
    /\ FeaturesBuilt
    /\ Len(raw_df) = 2
    /\ raw_df[1].InvoiceNo = <<"1">> /\ raw_df[1].CustomerID = <<1>>
    /\ raw_df[1].Quantity = 2 /\ raw_df[1].UnitPrice = 5
    /\ raw_df[2].InvoiceNo = <<"C", "2">> /\ raw_df[2].CustomerID = <<1>>
    /\ raw_df[2].Quantity = 1 /\ raw_df[2].UnitPrice = 5
    /\ Len(customer_features) = 1
    /\ customer_features[1].Monetary = 10
    /\ customer_features[1].Frequency = 1

\* the latest InvoiceDate of customer c in the cleaned frame
LatestOf(c) ==
    SetMax({cleaned_df[i].InvoiceDate :
                i \in {j \in 1..Len(cleaned_df) : cleaned_df[j].CustomerID = <<c>>}})

\* C7: on a non-empty cleaned frame build_rfm_features returns exactly one
\* row per distinct CustomerID; each Recency is >= 1 and is the number of
\* whole days from the customer's latest InvoiceDate to max(InvoiceDate) + 1
\* day; a customer who bought at the maximum date has Recency = 1.
C7_OneRowPerCustomerRecencyPositive ==
    (FeaturesBuilt /\ cleaned_df # <<>>) =>
        LET custs == {cleaned_df[i].CustomerID[1] : i \in 1..Len(cleaned_df)}
            maxd == SetMax({cleaned_df[i].InvoiceDate : i \in 1..Len(cleaned_df)})
            snap == maxd + TicksPerDay
        IN  /\ Len(customer_features) = Cardinality(custs)
            /\ {customer_features[k].CustomerID : k \in 1..Len(customer_features)} = custs
            /\ \A k \in 1..Len(customer_features) :
                LET rec == customer_features[k].Recency
                    gap == snap - LatestOf(customer_features[k].CustomerID)
                IN  /\ rec >= 1
                    /\ rec * TicksPerDay <= gap
                    /\ gap < (rec + 1) * TicksPerDay
                    /\ (LatestOf(customer_features[k].CustomerID) = maxd => rec = 1)

\* two customers, the one bought at the maximum date, the other a day before
C7_Witness ==
    /\ FeaturesBuilt
    /\ Len(customer_features) = 2
    /\ customer_features[1].Recency = 1
    /\ customer_features[2].Recency = 2
    /\ LatestOf(1) = 3
    /\ LatestOf(2) = 0

\* predict came to the column selection with a schema naming a column the
\* feature frame lacks
SchemaMismatch ==
    /\ FeaturesBuilt
    /\ pc # "validate"
    /\ MissingColumns(expected_features) # {}

NoResultFrame ==
    /\ pc # "returned"
    /\ X = <<>>
    /\ X_scaled = <<>>
    /\ \A k \in 1..Len(customer_features) :
            "Cluster" \notin DOMAIN customer_features[k]

C6_Claimed ==
    /\ (pc \notin {"idle", "clean"}
            /\ ~(\E i \in 1..Len(raw_df) :
                    raw_df[i].CustomerID # <<>> /\ ~Parseable(raw_df[i].InvoiceDate))
            /\ SelectSeq(raw_df, Keepable) = <<>>)
        => (pc = "raised" /\ err.at = "clean_data" /\ err.exc = "EmptyResultError")
    /\ (pc \in {"build", "validate", "scale", "predict", "returned"}
        => cleaned_df # <<>>)

\* a raw row with a CustomerID whose InvoiceDate cell is no date
UnparseableKept ==
    \E i \in 1..Len(raw_df) :
        raw_df[i].CustomerID # <<>> /\ ~Parseable(raw_df[i].InvoiceDate)

LabelCallEnded == lpc # "input"

PresentClusters == {df_results[i].Cluster : i \in 1..Len(df_results)}

SegmentLabelNames ==
    {HighValueLoyal, AtRiskChurning, RecentLowSpenders, BulkAverageBuyers}

\* column total and row count of one cluster of df_results
TotalOf(c, col) ==
    SumOver(Len(df_results), {i \in 1..Len(df_results) : df_results[i].Cluster = c},
            [i \in 1..Len(df_results) |-> df_results[i][col]])

CountOf(c) == Cardinality({i \in 1..Len(df_results) : df_results[i].Cluster = c})

\* mean(col) of cluster c is below that of cluster d
MeanBelow(c, d, col) == TotalOf(c, col) * CountOf(d) < TotalOf(d, col) * CountOf(c)

DistinctMeans(S, col) ==
    \A c, d \in S : c # d => (MeanBelow(c, d, col) \/ MeanBelow(d, c, col))

\* C3: with (at least) 4 distinct clusters get_segment_labels returns a
\* mapping whose keys are clusters of the input, one key per label handed
\* out (4 of them), whose values are among the four label names and in which
\* no two clusters share a label.
C3_DistinctLabelsForFourClusters ==
    (LabelCallEnded /\ Cardinality(PresentClusters) >= 4) =>
        /\ lpc = "returned"
        /\ DOMAIN labels \subseteq PresentClusters
        /\ Cardinality(DOMAIN labels) = 4
        /\ \A c \in DOMAIN labels : labels[c] \in SegmentLabelNames
        /\ \A c, d \in DOMAIN labels : c # d => labels[c] # labels[d]

\* four clusters were labelled, one of them holding two customers
C3_Witness ==
    /\ lpc = "returned"
    /\ Cardinality(PresentClusters) = 4
    /\ Len(df_results) = 5
    /\ {labels[c] : c \in DOMAIN labels} = SegmentLabelNames

\* the permutations of the cluster IDs
ClusterPermutations ==
    {p \in [ClusterIDs -> ClusterIDs] : \A c, d \in ClusterIDs : c # d => p[c] # p[d]}

\* df_results with every Cluster value c renamed to p[c]
Renamed(df, p) == [i \in 1..Len(df) |-> [df[i] EXCEPT !.Cluster = p[df[i].Cluster]]]

FourClustersNoTies ==
    /\ Cardinality(PresentClusters) = 4
    /\ DistinctMeans(PresentClusters, "Monetary")
    /\ DistinctMeans(PresentClusters, "Recency")

\* C4: with exactly 4 clusters whose mean Monetary values are pairwise
\* distinct and whose mean Recency values are pairwise distinct, renaming
\* the cluster IDs by any permutation p renames the keys of the returned
\* mapping by p and changes no label: the renamed frame has the single
\* outcome that maps p[c] to the label c received.
C4_LabelsIndependentOfClusterID ==
    (lpc = "returned" /\ FourClustersNoTies) =>
        \A p \in ClusterPermutations :
            get_segment_labels(Renamed(df_results, p)) =
                { Returned([d \in {p[c] : c \in DOMAIN labels} |->
                        labels[CHOOSE c \in DOMAIN labels : p[c] = d]]) }

\* a labelled frame without ties in which the highest-ID cluster is the
\* high-value one and the lowest-ID cluster the remaining one
C4_Witness ==
    /\ lpc = "returned"
    /\ FourClustersNoTies
    /\ labels[3] = HighValueLoyal
    /\ labels[0] = BulkAverageBuyers

\* the cluster of S with the highest (lowest) mean of col, when it is unique
Highest(S, col) == CHOOSE c \in S : \A d \in S \ {c} : MeanBelow(d, c, col)

Lowest(S, col) == CHOOSE c \in S : \A d \in S \ {c} : MeanBelow(c, d, col)

\* the reference procedure: greedy with elimination
ReferenceLabels ==
    LET loyal == Highest(PresentClusters, "Monetary")
        pool1 == PresentClusters \ {loyal}
        atrisk == Highest(pool1, "Recency")
        pool2 == pool1 \ {atrisk}
        recent == Lowest(pool2, "Recency")
        pool3 == pool2 \ {recent}
    IN  [c \in PresentClusters |->
            IF c = loyal THEN HighValueLoyal
            ELSE IF c = atrisk THEN AtRiskChurning
            ELSE IF c = recent THEN RecentLowSpenders
            ELSE BulkAverageBuyers]

\* exactly 4 clusters and no tie among the means a step compares
FourClustersNoComparedTies ==
    /\ Cardinality(PresentClusters) = 4
    /\ DistinctMeans(PresentClusters, "Monetary")
    /\ DistinctMeans(PresentClusters \ {Highest(PresentClusters, "Monetary")}, "Recency")

\* C8: with exactly 4 clusters and no ties in the compared means the
\* returned mapping is that of the reference procedure: highest mean
\* Monetary -> High-Value Loyal; of the rest, highest mean Recency ->
\* At-Risk/Churning; of the rest, lowest mean Recency -> Recent Low Spenders;
\* the one left -> Bulk/Average Buyers.
C8_GreedyRankingWithElimination ==
    (LabelCallEnded /\ FourClustersNoComparedTies) =>
        (lpc = "returned" /\ labels = ReferenceLabels)

\* the high-value cluster also has the highest mean Recency of all, so the
\* second step has to pass it over; one cluster's mean is over two rows
C8_Witness ==
    /\ lpc = "returned"
    /\ FourClustersNoComparedTies
    /\ Len(df_results) = 5
    /\ \A d \in PresentClusters \ {Highest(PresentClusters, "Monetary")} :
            MeanBelow(d, Highest(PresentClusters, "Monetary"), "Recency")

\* C9 as claimed: with 1, 2 or 3 distinct clusters get_segment_labels
\* completes normally and returns a mapping whose keys are exactly the
\* clusters present, each with one of the label names.
C9_Claimed ==
    (LabelCallEnded /\ Cardinality(PresentClusters) \in 1..3) =>
        /\ lpc = "returned"
        /\ DOMAIN labels = PresentClusters
        /\ \A c \in DOMAIN labels : labels[c] \in SegmentLabelNames

====
